---- MODULE Spec2Model ----
(***************************************************************************)
(* Model of notifications.py, the OBS script that turns front-end events   *)
(* into macOS notifications and keeps the replay buffer in line with the   *)
(* persisted "enableRB" setting.                                           *)
(*                                                                         *)
(* A datetime is the tuple <<day, second of day, microsecond>>; Python's   *)
(* None is the empty tuple.  A string built by the script is a sequence of *)
(* tokens: the literal chunks of an f-string are one token each, formatted *)
(* numbers are one token per character.                                    *)
(***************************************************************************)
EXTENDS Integers, Sequences, FiniteSets, TLC

VARIABLES
    start,            \* module global `start` (notifications.py:15)
    callbacks,        \* number of registrations of get_event with the front end
    rbActive,         \* obs_frontend_replay_buffer_active()
    settings,         \* the obs_data_t holding "enableRB": user value and default
    pending,          \* callbacks the front end still has to invoke for the event
    out,              \* what the most recent call printed, spawned, invoked
    call,             \* the most recent call of the host and its inputs
    lastStartT,       \* history: clock read by the latest RecordingStarted handled
    stopsSinceStart,  \* history: RecordingStopped handled since then (saturating)
    lastLifecycle,    \* history: "load" / "unload" / "none"
    alternating,      \* history: script_load and script_unload have alternated
    prevUpdateCalls   \* history: if the last two calls were both script_update,
                      \* what the first of them invoked; otherwise NoPair

vars == <<start, callbacks, rbActive, settings, pending, out, call,
          lastStartT, stopsSinceStart, lastLifecycle, alternating,
          prevUpdateCalls>>

----------------------------------------------------------------------------
(* Bounds of the model *)

MaxDay == 2
MaxCallbacks == 2
MaxStops == 2

(* Program constants *)

UsPerSecond == 1000000
SecondsPerDay == 86400

None == <<>>

NoPair == <<"-">>

Day(t) == t[1]
Sec(t) == t[2]
Us(t)  == t[3]

\* Values datetime.datetime.now() returns in the model.  The wall clock is an
\* input of every handler call; it is not assumed to be monotonic.
Times ==
    { <<0, 36000, 0>>, <<0, 36000, 999999>>, <<0, 36001, 0>>,
      <<0, 36005, 500000>>, <<0, 43200, 0>> }
    \cup { <<d, 36000, 0>> : d \in 1..MaxDay }

RecordingStarted    == "OBS_FRONTEND_EVENT_RECORDING_STARTED"
RecordingStopped    == "OBS_FRONTEND_EVENT_RECORDING_STOPPED"
ReplayBufferSaved   == "OBS_FRONTEND_EVENT_REPLAY_BUFFER_SAVED"
ReplayBufferStopped == "OBS_FRONTEND_EVENT_REPLAY_BUFFER_STOPPED"
OtherEvent          == "OBS_FRONTEND_EVENT_STREAMING_STARTED"

Events == {RecordingStarted, RecordingStopped, ReplayBufferSaved,
           ReplayBufferStopped, OtherEvent}

----------------------------------------------------------------------------
(* Formatting: "%d", "%02d", "%06d", strftime, str(timedelta), str.split *)

DigitChars == <<"0", "1", "2", "3", "4", "5", "6", "7", "8", "9">>

RECURSIVE Digits(_)
Digits(n) ==
    IF n < 10 THEN <<DigitChars[n + 1]>>
    ELSE Digits(n \div 10) \o <<DigitChars[(n % 10) + 1]>>

FmtD(n) == IF n < 0 THEN <<"-">> \o Digits(-n) ELSE Digits(n)

RECURSIVE Pad(_, _)
Pad(s, w) == IF Len(s) >= w THEN s ELSE Pad(<<"0">> \o s, w)

FmtPad(n, w) == Pad(Digits(n), w)

Abs(n) == IF n < 0 THEN -n ELSE n

\* datetime.strftime("%I:%M:%S %p")
Strftime(t) ==
    LET h   == Sec(t) \div 3600
        m   == (Sec(t) \div 60) % 60
        s   == Sec(t) % 60
        h12 == IF h % 12 = 0 THEN 12 ELSE h % 12
    IN  FmtPad(h12, 2) \o <<":">> \o FmtPad(m, 2) \o <<":">> \o FmtPad(s, 2)
        \o <<" ">> \o (IF h < 12 THEN <<"A", "M">> ELSE <<"P", "M">>)

\* datetime - datetime: a normalized timedelta <<days, seconds, microseconds>>
\* with 0 <= seconds < 86400 and 0 <= microseconds < 1000000.
Sub(a, b) ==
    LET u  == Us(a) - Us(b)
        s  == (Sec(a) - Sec(b)) + (u \div UsPerSecond)
        d  == (Day(a) - Day(b)) + (s \div SecondsPerDay)
    IN  <<d, s % SecondsPerDay, u % UsPerSecond>>

\* str(timedelta)
TimedeltaStr(td) ==
    LET mm0 == td[2] \div 60
        ss  == td[2] % 60
        hh  == mm0 \div 60
        mm  == mm0 % 60
        hms == FmtD(hh) \o <<":">> \o FmtPad(mm, 2) \o <<":">> \o FmtPad(ss, 2)
        s   == IF td[1] # 0
               THEN FmtD(td[1]) \o <<" ", "d", "a", "y">>
                    \o (IF Abs(td[1]) # 1 THEN <<"s">> ELSE <<>>)
                    \o <<",", " ">> \o hms
               ELSE hms
    IN  IF td[3] # 0 THEN s \o <<".">> \o FmtPad(td[3], 6) ELSE s

\* str.split(sep)[0]: the part before the first occurrence of sep
RECURSIVE SplitHead(_, _)
SplitHead(s, sep) ==
    IF s = <<>> \/ Head(s) = sep THEN <<>>
    ELSE <<Head(s)>> \o SplitHead(Tail(s), sep)

----------------------------------------------------------------------------
(* get_event *)

\* subprocess.call(["osascript", "-e", 'display notification "{msg}" with title "OBS"'])
Notification(msg) ==
    [blocking |-> TRUE,
     argv |-> <<<<"osascript">>, <<"-e">>,
                <<"display notification \"">> \o msg \o <<"\" with title \"">>
                \o <<"OBS">> \o <<"\"">>>>]

\* subprocess.Popen(["osascript", "-e", msg])
SideChannel(msg) ==
    [blocking |-> FALSE, argv |-> <<<<"osascript">>, <<"-e">>, msg>>]

\* What one call of get_event leaves behind: the global, the lines printed,
\* the processes spawned (in order), and whether an exception left the handler.
Result(s, log, spawns, raised) ==
    [start |-> s, log |-> log, spawns |-> spawns, raised |-> raised]

\* Variant: each datetime loses its microseconds before the subtraction.
DurationStrTruncatedOperands(stop, s) ==
    TimedeltaStr(Sub(<<Day(stop), Sec(stop), 0>>, <<Day(s), Sec(s), 0>>))

\* str(stop - start).split('.')[0]
DurationStr(stop, s) == SplitHead(TimedeltaStr(Sub(stop, s)), ".")

OnRecordingStarted(t, s) ==
    LET msg == <<"Recording started at ">> \o Strftime(t)
    IN  Result(t, <<msg>>, <<Notification(msg)>>, FALSE)

\* Variant: the handler clears the global once the duration is reported.
OnRecordingStoppedClearing(t, s) ==
    IF s = None
    THEN Result(s, <<>>, <<>>, TRUE)
    ELSE LET msg == <<"Recording stopped at ">> \o Strftime(t)
                    \o <<". Duration: ">> \o DurationStr(t, s)
         IN  Result(None, <<msg>>, <<SideChannel(msg), Notification(msg)>>, FALSE)

\* `stop - start` with start = None raises TypeError while the message is
\* being formatted, before print and before either spawn.
OnRecordingStopped(t, s) ==
    IF s = None
    THEN Result(s, <<>>, <<>>, TRUE)
    ELSE LET msg == <<"Recording stopped at ">> \o Strftime(t)
                    \o <<". Duration: ">> \o DurationStr(t, s)
         IN  Result(s, <<msg>>, <<SideChannel(msg), Notification(msg)>>, FALSE)

OnReplayBufferSaved(t, s) ==
    LET msg == <<"Replay buffer saved at ">> \o Strftime(t)
    IN  Result(s, <<msg>>, <<Notification(msg)>>, FALSE)

\* Variant: the branch stamps the global like the RecordingStarted branch.
OnReplayBufferStoppedStamping(t, s) ==
    LET msg == <<"Replay buffer stopped">>
    IN  Result(t, <<msg>>, <<Notification(msg)>>, FALSE)

OnReplayBufferStopped(t, s) ==
    LET msg == <<"Replay buffer stopped">>
    IN  Result(s, <<msg>>, <<Notification(msg)>>, FALSE)

get_event(event, t, s) ==
    IF event = RecordingStarted THEN OnRecordingStarted(t, s)
    ELSE IF event = RecordingStopped THEN OnRecordingStopped(t, s)
    ELSE IF event = ReplayBufferSaved THEN OnReplayBufferSaved(t, s)
    ELSE IF event = ReplayBufferStopped THEN OnReplayBufferStopped(t, s)
    ELSE Result(s, <<>>, <<>>, FALSE)

----------------------------------------------------------------------------
(* The settings store, the replay buffer and the callback list of the host *)

\* obs_data_get_bool: the user value if there is one, else the default, else false
GetBool(st) ==
    IF st.user # None THEN st.user[1]
    ELSE IF st.default # None THEN st.default[1]
    ELSE FALSE

\* Variant: the fixed default the docstring of script_defaults speaks of.
DefaultEnableRBFixed(active) == FALSE

\* True if obspython.obs_frontend_replay_buffer_active() else False
DefaultEnableRB(active) == IF active THEN TRUE ELSE FALSE

\* obs_data_set_default_bool(settings, "enableRB", v)
SetDefaultBool(st, v) == [st EXCEPT !.default = <<v>>]

\* Variant: script_load checks the running state like script_update does.
ScriptLoadCallsChecked(flag, active) ==
    IF flag /\ ~active THEN <<"start">> ELSE <<>>

\* The replay-buffer operations script_load invokes, in order
ScriptLoadCalls(flag, active) == IF flag THEN <<"start">> ELSE <<>>

\* Variant: script_update starts unconditionally like script_load does.
ScriptUpdateCallsUnchecked(flag, active) ==
    IF flag THEN <<"start">>
    ELSE IF active THEN <<"stop">>
    ELSE <<>>

\* Variant: script_update without its elif branch.
ScriptUpdateCallsStartOnly(flag, active) ==
    IF flag /\ ~active THEN <<"start">> ELSE <<>>

\* The replay-buffer operations script_update invokes, in order
ScriptUpdateCalls(flag, active) ==
    IF flag /\ ~active THEN <<"start">>
    ELSE IF ~flag /\ active THEN <<"stop">>
    ELSE <<>>

\* obs_frontend_replay_buffer_start / _stop, taking effect at once
RECURSIVE ApplyRB(_, _)
ApplyRB(calls, active) ==
    IF calls = <<>> THEN active
    ELSE ApplyRB(Tail(calls), Head(calls) = "start")

\* obs_frontend_add_event_callback(get_event)
AddEventCallback(n) == n + 1

\* Variant: script_unload without the removal.
RemoveEventCallbackMissing(n) == n

\* obs_frontend_remove_event_callback(get_event): drops one registration
RemoveEventCallback(n) == IF n > 0 THEN n - 1 ELSE 0

Min(a, b) == IF a < b THEN a ELSE b

Out(log, spawns, rbCalls, raised) ==
    [log |-> log, spawns |-> spawns, rbCalls |-> rbCalls, raised |-> raised]

\* A call of the host: its name, the event and clock value it was given, and
\* the replay-buffer state it found.
Call(op, event, t, active) ==
    [op |-> op, event |-> event, now |-> t, active |-> active]

----------------------------------------------------------------------------
(* Initial state: the module has been imported, nothing has been called *)

Init ==
    /\ start = None
    /\ callbacks = 0
    /\ rbActive \in BOOLEAN
    /\ settings \in [user : {None, <<TRUE>>, <<FALSE>>}, default : {None}]
    /\ pending = 0
    /\ out = Out(<<>>, <<>>, <<>>, FALSE)
    /\ call = Call("none", "-", None, rbActive)
    /\ lastStartT = None
    /\ stopsSinceStart = 0
    /\ lastLifecycle = "none"
    /\ alternating = TRUE
    /\ prevUpdateCalls = NoPair

----------------------------------------------------------------------------
(* Calls of the host into the script *)

script_defaults ==
    /\ pending = 0
    /\ settings' = SetDefaultBool(settings, DefaultEnableRB(rbActive))
    /\ out' = Out(<<>>, <<>>, <<>>, FALSE)
    /\ call' = Call("script_defaults", "-", None, rbActive)
    /\ prevUpdateCalls' = NoPair
    /\ UNCHANGED <<start, callbacks, rbActive, pending, lastStartT,
                   stopsSinceStart, lastLifecycle, alternating>>

script_load ==
    /\ pending = 0
    /\ callbacks < MaxCallbacks
    /\ LET flag  == GetBool(settings)
           calls == ScriptLoadCalls(flag, rbActive)
       IN  /\ callbacks' = AddEventCallback(callbacks)
           /\ rbActive' = ApplyRB(calls, rbActive)
           /\ out' = Out(<<<<"Configuring callback...">>,
                           <<"Callback configured successfully">>>>
                         \o (IF flag THEN <<<<"Enabling replay buffer...">>,
                                            <<"Replay buffer enabled">>>>
                                     ELSE <<>>),
                         <<>>, calls, FALSE)
    /\ call' = Call("script_load", "-", None, rbActive)
    /\ lastLifecycle' = "load"
    /\ alternating' = (alternating /\ lastLifecycle # "load")
    /\ prevUpdateCalls' = NoPair
    /\ UNCHANGED <<start, settings, pending, lastStartT, stopsSinceStart>>

script_unload ==
    /\ pending = 0
    /\ callbacks' = RemoveEventCallback(callbacks)
    /\ out' = Out(<<<<"Script unloading. Releasing objects and removing callbacks...">>>>,
                  <<>>, <<>>, FALSE)
    /\ call' = Call("script_unload", "-", None, rbActive)
    /\ lastLifecycle' = "unload"
    /\ alternating' = (alternating /\ lastLifecycle # "unload")
    /\ prevUpdateCalls' = NoPair
    /\ UNCHANGED <<start, rbActive, settings, pending, lastStartT, stopsSinceStart>>

script_update ==
    /\ pending = 0
    /\ LET flag  == GetBool(settings)
           calls == ScriptUpdateCalls(flag, rbActive)
       IN  /\ rbActive' = ApplyRB(calls, rbActive)
           /\ out' = Out(IF calls = <<"start">>
                            THEN <<<<"Starting replay buffer...">>,
                                   <<"Replay buffer started">>>>
                         ELSE IF calls = <<"stop">>
                            THEN <<<<"Stopping replay buffer...">>,
                                   <<"Replay buffer stopped">>>>
                         ELSE <<>>,
                         <<>>, calls, FALSE)
    /\ call' = Call("script_update", "-", None, rbActive)
    /\ prevUpdateCalls' = (IF call.op = "script_update" THEN out.rbCalls ELSE NoPair)
    /\ UNCHANGED <<start, callbacks, settings, pending, lastStartT,
                   stopsSinceStart, lastLifecycle, alternating>>

\* The front end raises an event: every registered callback will be invoked.
Dispatch ==
    /\ pending = 0
    /\ \E e \in Events :
          call' = Call("dispatch", e, None, rbActive)
    /\ pending' = callbacks
    /\ out' = Out(<<>>, <<>>, <<>>, FALSE)
    /\ prevUpdateCalls' = NoPair
    /\ UNCHANGED <<start, callbacks, rbActive, settings, lastStartT,
                   stopsSinceStart, lastLifecycle, alternating>>

\* One invocation of get_event for the event being dispatched.
InvokeCallback ==
    /\ pending > 0
    /\ \E t \in Times :
          LET e == call.event
              r == get_event(e, t, start)
          IN  /\ start' = r.start
              /\ out' = Out(r.log, r.spawns, <<>>, r.raised)
              /\ call' = Call("get_event", e, t, rbActive)
              /\ lastStartT' = IF e = RecordingStarted THEN t ELSE lastStartT
              /\ stopsSinceStart' =
                    IF e = RecordingStarted THEN 0
                    ELSE IF e = RecordingStopped
                         THEN Min(stopsSinceStart + 1, MaxStops)
                         ELSE stopsSinceStart
    /\ pending' = pending - 1
    /\ prevUpdateCalls' = NoPair
    /\ UNCHANGED <<callbacks, rbActive, settings, lastLifecycle, alternating>>

----------------------------------------------------------------------------
(* The environment: the user's checkbox and the replay buffer's own life *)

\* The properties checkbox "Start replay buffer automatically." stores a value.
SetEnableRB ==
    /\ pending = 0
    /\ \E v \in BOOLEAN : settings' = [settings EXCEPT !.user = <<v>>]
    /\ out' = Out(<<>>, <<>>, <<>>, FALSE)
    /\ call' = Call("set_enableRB", "-", None, rbActive)
    /\ prevUpdateCalls' = NoPair
    /\ UNCHANGED <<start, callbacks, rbActive, pending, lastStartT,
                   stopsSinceStart, lastLifecycle, alternating>>

\* The replay buffer is started or stopped from outside the script.
ReplayBufferToggled ==
    /\ pending = 0
    /\ rbActive' = ~rbActive
    /\ out' = Out(<<>>, <<>>, <<>>, FALSE)
    /\ call' = Call("replay_buffer_toggled", "-", None, rbActive)
    /\ prevUpdateCalls' = NoPair
    /\ UNCHANGED <<start, callbacks, settings, pending, lastStartT,
                   stopsSinceStart, lastLifecycle, alternating>>

Next ==
    \/ script_defaults
    \/ script_load
    \/ script_unload
    \/ script_update
    \/ Dispatch
    \/ InvokeCallback
    \/ SetEnableRB
    \/ ReplayBufferToggled

Spec == Init /\ [][Next]_vars

----------------------------------------------------------------------------
(* Reading a reported duration back; whole seconds between two clock values *)

Has(s, c) == \E i \in 1..Len(s) : s[i] = c

\* The part after the first occurrence of sep
RECURSIVE SplitRest(_, _)
SplitRest(s, sep) ==
    IF s = <<>> THEN <<>>
    ELSE IF Head(s) = sep THEN Tail(s)
    ELSE SplitRest(Tail(s), sep)

DigitVal(c) == CHOOSE i \in 0..9 : DigitChars[i + 1] = c

RECURSIVE ParseNat(_)
ParseNat(s) ==
    IF s = <<>> THEN 0
    ELSE 10 * ParseNat(SubSeq(s, 1, Len(s) - 1)) + DigitVal(s[Len(s)])

ParseInt(s) == IF Head(s) = "-" THEN -ParseNat(Tail(s)) ELSE ParseNat(s)

\* Seconds denoted by "[-]D day[s], H:MM:SS" or "H:MM:SS"
ParseDuration(d) ==
    LET days == IF Has(d, ",") THEN ParseInt(SplitHead(d, " ")) ELSE 0
        hms  == IF Has(d, ",") THEN Tail(SplitRest(d, ",")) ELSE d
        h    == ParseNat(SplitHead(hms, ":"))
        m    == ParseNat(SplitHead(SplitRest(hms, ":"), ":"))
        sec  == ParseNat(SplitRest(SplitRest(hms, ":"), ":"))
    IN  days * SecondsPerDay + h * 3600 + m * 60 + sec

\* The duration a "Recording stopped" line reports
DurationOf(msg) == SplitRest(msg, ". Duration: ")

\* a is not later than b
Leq(a, b) ==
    \/ Day(a) < Day(b)
    \/ Day(a) = Day(b) /\ Sec(a) < Sec(b)
    \/ Day(a) = Day(b) /\ Sec(a) = Sec(b) /\ Us(a) <= Us(b)

\* b - a in whole seconds, the fraction of the difference discarded (a <= b)
WholeSeconds(a, b) ==
    (Day(b) - Day(a)) * SecondsPerDay + (Sec(b) - Sec(a))
    - (IF Us(b) < Us(a) THEN 1 ELSE 0)

Handled(e) == call.op = "get_event" /\ call.event = e

\* The one line printed by the last call reports exactly `secs` whole seconds
ReportsSeconds(secs) ==
    /\ ~out.raised
    /\ Len(out.log) = 1
    /\ ~Has(DurationOf(out.log[1]), ".")
    /\ ParseDuration(DurationOf(out.log[1])) = secs

BlockingSpawns == {i \in 1..Len(out.spawns) : out.spawns[i].blocking}
DetachedSpawns == {i \in 1..Len(out.spawns) : ~out.spawns[i].blocking}

\* Spawn i displays the logged line as a notification titled "OBS"
IsObsNotification(i) ==
    /\ out.spawns[i].blocking
    /\ out.spawns[i].argv = Notification(out.log[1]).argv
    /\ Has(out.spawns[i].argv[3], "OBS")

----------------------------------------------------------------------------
(* Claims *)

\* C1: when a RecordingStopped event is handled at time t and the latest
\* RecordingStarted was handled at time s <= t, the message carries the
\* duration t - s with the sub-second part of the difference discarded.
C1_DurationIsTruncatedDifference ==
    (Handled(RecordingStopped) /\ lastStartT # None /\ Leq(lastStartT, call.now))
        => ReportsSeconds(WholeSeconds(lastStartT, call.now))

\* C1 witness: start at 10:00:00.999999, stop at 10:00:01.000000; the
\* difference is one microsecond although the two seconds fields differ.
C1_Witness ==
    /\ Handled(RecordingStopped)
    /\ lastStartT = <<0, 36000, 999999>>
    /\ call.now = <<0, 36001, 0>>
    /\ ReportsSeconds(0)

\* C2: handling ReplayBufferStopped, ReplayBufferSaved or an unrecognized
\* event leaves `start` as it was; a step changes `start` only if it is
\* get_event handling RecordingStarted.
C2_OnlyRecordingStartedWritesStart ==
    [][ /\ (call'.op = "get_event" /\ call'.event \in
               {ReplayBufferStopped, ReplayBufferSaved, OtherEvent}
            => start' = start)
        /\ (start' # start => call'.op = "get_event"
                              /\ call'.event = RecordingStarted) ]_vars

\* C2 witness: ReplayBufferStopped handled while the timestamp is set.
C2_Witness ==
    /\ Handled(ReplayBufferStopped)
    /\ start # None
    /\ call.now # start
    /\ Len(out.log) = 1

\* C3: of two consecutive script_update calls (nothing else in between, so
\* the same flag value), the second invokes neither start nor stop and the
\* two together invoke at most one operation.
C3_UpdateIdempotent ==
    (call.op = "script_update" /\ prevUpdateCalls # NoPair)
        => /\ out.rbCalls = <<>>
           /\ out.log = <<>>
           /\ Len(prevUpdateCalls) + Len(out.rbCalls) <= 1

\* C3 witness: the flag is false, the first call stopped the running replay
\* buffer, the call right after it did nothing.
C3_Witness ==
    /\ call.op = "script_update"
    /\ prevUpdateCalls = <<"stop">>
    /\ ~GetBool(settings)
    /\ out.rbCalls = <<>>
    /\ ~rbActive

C5_LoadStartsOnFlag ==
    call.op = "script_load"
        => out.rbCalls = (IF GetBool(settings) THEN <<"start">> ELSE <<>>)

\* C5 witness: flag true and the replay buffer already running at the call.
C5_Witness ==
    /\ call.op = "script_load"
    /\ GetBool(settings)
    /\ call.active
    /\ out.rbCalls = <<"start">>

\* C6: script_update invokes start only with the flag true and the replay
\* buffer stopped, stop only with the flag false and the replay buffer
\* running, nothing otherwise; afterwards the running state equals the flag.
C6_UpdateReconciles ==
    call.op = "script_update"
        => /\ Len(out.rbCalls) <= 1
           /\ (Has(out.rbCalls, "start") <=> (GetBool(settings) /\ ~call.active))
           /\ (Has(out.rbCalls, "stop") <=> (~GetBool(settings) /\ call.active))
           /\ rbActive = GetBool(settings)

\* C6 witness: the flag false, the replay buffer running: stopped.
C6_Witness ==
    /\ call.op = "script_update"
    /\ ~GetBool(settings)
    /\ call.active
    /\ out.rbCalls = <<"stop">>
    /\ ~rbActive

\* C7: every handled RecordingStarted, ReplayBufferSaved or
\* ReplayBufferStopped prints one line and spawns one blocking notification
\* titled "OBS"; every handled RecordingStopped prints one line and spawns
\* one blocking notification and one detached process; any other event
\* prints and spawns nothing.
C7_PerEventSideEffects ==
    call.op = "get_event"
        => IF call.event \in {RecordingStarted, ReplayBufferSaved,
                              ReplayBufferStopped}
              THEN /\ Len(out.log) = 1
                   /\ Len(out.spawns) = 1
                   /\ IsObsNotification(1)
           ELSE IF call.event = RecordingStopped
              THEN /\ Len(out.log) = 1
                   /\ Cardinality(BlockingSpawns) = 1
                   /\ Cardinality(DetachedSpawns) = 1
                   /\ \A i \in BlockingSpawns : IsObsNotification(i)
           ELSE out.log = <<>> /\ out.spawns = <<>>

\* C8: while script_load and script_unload alternate, get_event is registered
\* once after a load and not at all otherwise; after an unload no event
\* reaches get_event, so a dispatched event prints nothing, spawns nothing
\* and no handler call touches `start`.
C8_RegisteredBetweenLoadAndUnload ==
    alternating
        => /\ callbacks = (IF lastLifecycle = "load" THEN 1 ELSE 0)
           /\ (lastLifecycle = "unload"
               => /\ pending = 0
                  /\ call.op # "get_event"
                  /\ (call.op = "dispatch"
                      => out.log = <<>> /\ out.spawns = <<>>))

\* C8 witness: load, events handled, unload, then RecordingStarted dispatched.
C8_Witness ==
    /\ alternating
    /\ lastLifecycle = "unload"
    /\ call.op = "dispatch"
    /\ call.event = RecordingStarted
    /\ start # None

\* C9: a RecordingStopped handled while `start` has never been set completes
\* without an exception and emits its line and its notification.
C9_StopWithoutStartCompletes ==
    (Handled(RecordingStopped) /\ lastStartT = None)
        => /\ ~out.raised
           /\ Len(out.log) = 1
           /\ BlockingSpawns # {}

\* C10: once set, `start` always holds the clock value of the latest
\* RecordingStarted handled (a stop does not clear it, a later start
\* overwrites it), and a second stop with no start in between reports its
\* duration from that same value.
C10_StartKeptAcrossStops ==
    /\ (lastStartT # None => start = lastStartT)
    /\ (Handled(RecordingStopped) /\ stopsSinceStart >= 2
        /\ lastStartT # None /\ Leq(lastStartT, call.now))
           => ReportsSeconds(WholeSeconds(start, call.now))

\* C10 witness: the latest start read 10:00:05.5 on day 0; the second stop in
\* a row reads 10:00:00 on day 1, 23:59:54.5 later, and reports 23:59:54.
C10_Witness ==
    /\ Handled(RecordingStopped)
    /\ stopsSinceStart >= 2
    /\ start = <<0, 36005, 500000>>
    /\ call.now = <<1, 36000, 0>>
    /\ ReportsSeconds(SecondsPerDay - 6)

====
